---- MODULE Spec2Model ----
(***************************************************************************)
(* Universal Plotter: the row-normalisation engine and the session state   *)
(* of script.js.                                                           *)
(*                                                                         *)
(* The repository holds three variants of script.js.  The newest one       *)
(* (src/unnamed/part_000) flattens JSON with parseJsonToRows; the two      *)
(* older ones (src/script.js, lines 1-378 and 379-851) take the JSON rows  *)
(* as they are.  The session part of the model carries the variant as a    *)
(* state variable that never changes.                                      *)
(*                                                                         *)
(* Strings of the program are sequences of one-character strings, so that  *)
(* lastIndexOf, substring, split, toLowerCase and template concatenation   *)
(* are computed, not assumed: "a.b" is <<"a", ".", "b">>.                  *)
(***************************************************************************)
EXTENDS Integers, Sequences, FiniteSets, TLC

VARIABLES
    variant,      \* which script.js is running: "flatten" or "legacy"
    parsedRows,   \* let parsedRows = []
    xKey,         \* let xKey = null
    yKey,         \* let yKey = null
    groupKey,     \* let groupKey = null
    columnList,   \* the <li data-key> children of #columnList, in order
    dropText,     \* which of dropX, dropY, dropGroup show a key ("filled")
    chart,        \* what #plotArea displays
    fileInfo,     \* #file-info: the name after "Loaded: "
    pending,      \* FileReaders whose onload has not fired yet
    dragData,     \* dataTransfer 'text/plain' of the drag in progress
    alertMsg,     \* message of the alert() raised by the last handler
    phase,        \* position of the pure-function harness
    arg,          \* harness: the input drawn in Init
    res           \* harness: what the applied function returned

vars == <<variant, parsedRows, xKey, yKey, groupKey, columnList, dropText,
          chart, fileInfo, pending, dragData, alertMsg, phase, arg, res>>

sessionVars == <<variant, parsedRows, xKey, yKey, groupKey, columnList,
                 dropText, chart, fileInfo, pending, dragData, alertMsg>>

harnessVars == <<phase, arg, res>>

-----------------------------------------------------------------------------
(* JavaScript values.  Every value is a record with a tag t and a payload  *)
(* v; an object's payload is its own enumerable properties as a sequence   *)
(* of <<key, value>> pairs in property order, an array's payload is the    *)
(* sequence of its elements.                                               *)

JNull == [t |-> "null", v |-> 0]

JUndefined == [t |-> "undefined", v |-> 0]

JNum(n) == [t |-> "number", v |-> n]

JBool(b) == [t |-> "boolean", v |-> b]

JStr(s) == [t |-> "string", v |-> s]

JObj(es) == [t |-> "object", v |-> es]

JArr(xs) == [t |-> "array", v |-> xs]

\* typeof value
typeOf(value) ==
    IF value.t \in {"null", "object", "array"} THEN "object"
    ELSE IF value.t \in {"decimal", "NaN", "Infinity"} THEN "number"
    ELSE value.t

\* Array.isArray(value)
isArray(value) == value.t = "array"

\* ToBoolean(value), as used by `value && ...`, `if (found)`, `prefix ? :`
truthy(value) ==
    CASE value.t \in {"null", "undefined", "NaN"} -> FALSE
      [] value.t = "number"  -> value.v # 0
      [] value.t = "boolean" -> value.v
      [] value.t = "string"  -> value.v # <<>>
      [] OTHER -> TRUE

-----------------------------------------------------------------------------
(* Strings *)

Digits == <<"0", "1", "2", "3", "4", "5", "6", "7", "8", "9">>

DigitChars == {Digits[i] : i \in 1..10}

DigitVal(c) == (CHOOSE i \in 1..10 : Digits[i] = c) - 1

\* String(n) for a non-negative integer: the decimal digits
RECURSIVE NatToStr(_)
NatToStr(n) ==
    IF n < 10 THEN <<Digits[n + 1]>>
    ELSE NatToStr(n \div 10) \o <<Digits[(n % 10) + 1]>>

RECURSIVE StrToNat(_)
StrToNat(s) ==
    IF s = <<>> THEN 0
    ELSE 10 * StrToNat(SubSeq(s, 1, Len(s) - 1)) + DigitVal(s[Len(s)])


-----------------------------------------------------------------------------
(* Objects: own properties in JavaScript's property order (array-index     *)
(* keys first, ascending; then the other keys in insertion order).         *)

AllDigits(s) == \A i \in 1..Len(s) : s[i] \in DigitChars

\* A canonical array index: "0", or digits with no leading zero.  The keys
\* of the model are shorter than ten digits, so all are below 2^32 - 1.
IsArrayIndex(k) ==
    /\ k # <<>>
    /\ Len(k) <= 9
    /\ AllDigits(k)
    /\ (k[1] = "0" => Len(k) = 1)

HasKey(es, k) == \E i \in 1..Len(es) : es[i][1] = k

IndexOfKey(es, k) == CHOOSE i \in 1..Len(es) : es[i][1] = k

\* obj[k] = val on the property list es of an ordinary object
Put(es, k, val) ==
    IF HasKey(es, k)
    THEN [es EXCEPT ![IndexOfKey(es, k)] = <<k, val>>]
    ELSE IF IsArrayIndex(k)
    THEN LET p == Cardinality({i \in 1..Len(es) :
                        /\ IsArrayIndex(es[i][1])
                        /\ StrToNat(es[i][1]) < StrToNat(k)})
         IN  SubSeq(es, 1, p) \o << <<k, val>> >> \o SubSeq(es, p + 1, Len(es))
    ELSE Append(es, <<k, val>>)

\* delete obj[k]
Delete(es, k) ==
    IF HasKey(es, k)
    THEN LET i == IndexOfKey(es, k)
         IN  SubSeq(es, 1, i - 1) \o SubSeq(es, i + 1, Len(es))
    ELSE es

\* The own enumerable string-keyed properties of a value, in order
OwnEntries(value) ==
    CASE value.t = "object" -> value.v
      [] value.t = "array"  ->
            [i \in 1..Len(value.v) |-> <<NatToStr(i - 1), value.v[i]>>]
      [] value.t = "string" ->
            [i \in 1..Len(value.v) |-> <<NatToStr(i - 1), JStr(<<value.v[i]>>)>>]
      [] OTHER -> <<>>

\* Object.keys(value); the caller decides what null and undefined do
ObjectKeys(value) ==
    LET es == OwnEntries(value) IN [i \in 1..Len(es) |-> es[i][1]]

\* value[k] for a value that is not null or undefined
Get(value, k) ==
    LET es == OwnEntries(value)
    IN  IF HasKey(es, k) THEN es[IndexOfKey(es, k)][2] ELSE JUndefined

\* Object.assign(target, source) on property lists
RECURSIVE AssignFrom(_, _, _)
AssignFrom(target, source, i) ==
    IF i > Len(source) THEN target
    ELSE AssignFrom(Put(target, source[i][1], source[i][2]), source, i + 1)

ObjectAssign(target, source) == AssignFrom(target, source, 1)

\* JSON.parse builds each object by defining the members in text order, so
\* a repeated name keeps its first position and its last value, and the
\* members come out in property order.  doc is the document as written.
RECURSIVE JsonParse(_)
JsonParse(doc) ==
    CASE doc.t = "object" ->
            LET parsed == [i \in 1..Len(doc.v) |->
                              <<doc.v[i][1], JsonParse(doc.v[i][2])>>]
            IN  JObj(ObjectAssign(<<>>, parsed))
      [] doc.t = "array" ->
            JArr([i \in 1..Len(doc.v) |-> JsonParse(doc.v[i])])
      [] OTHER -> doc

-----------------------------------------------------------------------------
(* flattenObject, part_000:82-104 *)

Dot == <<".">>

\* `${newKey}[${index}]`
Indexed(newKey, index) == newKey \o <<"[">> \o NatToStr(index) \o <<"]">>

\* A slip: the dot is put in front of a top-level key as well
NewKeyAlwaysDotted(prefix, key) == prefix \o Dot \o key

\* const newKey = prefix ? `${prefix}.${key}` : key
NewKey(prefix, key) == IF prefix # <<>> THEN prefix \o Dot \o key ELSE key

RECURSIVE flattenObject(_, _)
RECURSIVE flattenKeys(_, _, _, _)
RECURSIVE flattenItems(_, _, _, _)

\* value.forEach((item, index) => ...) of flattenObject, from element i on
flattenItems(items, newKey, i, out) ==
    IF i > Len(items) THEN out
    ELSE LET item == items[i]
             next ==
                 IF truthy(item) /\ typeOf(item) = "object"
                 THEN ObjectAssign(out, flattenObject(item, Indexed(newKey, i - 1)).v)
                 ELSE Put(out, Indexed(newKey, i - 1), item)
         IN  flattenItems(items, newKey, i + 1, next)

\* Object.keys(obj).forEach((key) => ...) of flattenObject, from key i on
flattenKeys(es, prefix, i, out) ==
    IF i > Len(es) THEN out
    ELSE LET key == es[i][1]
             value == es[i][2]
             newKey == NewKey(prefix, key)
             next ==
                 IF truthy(value) /\ typeOf(value) = "object" /\ ~isArray(value)
                 THEN ObjectAssign(out, flattenObject(value, newKey).v)
                 ELSE IF isArray(value)
                 THEN flattenItems(value.v, newKey, 1, out)
                 ELSE Put(out, newKey, value)
         IN  flattenKeys(es, prefix, i + 1, next)

flattenObject(obj, prefix) == JObj(flattenKeys(OwnEntries(obj), prefix, 1, <<>>))

-----------------------------------------------------------------------------
(* parseJsonToRows, part_000:116-185.  A function that can throw returns   *)
(* a record: threw says whether it did, rows is what it returned.          *)

\* path.split('.'): the pieces between the dots; '' gives one empty piece
RECURSIVE SplitDots(_, _, _)
SplitDots(s, i, piece) ==
    IF i > Len(s) THEN <<piece>>
    ELSE IF s[i] = "."
    THEN <<piece>> \o SplitDots(s, i + 1, <<>>)
    ELSE SplitDots(s, i + 1, Append(piece, s[i]))

split(path) == SplitDots(path, 1, <<>>)

RECURSIVE findObjectArrayPath(_, _)
RECURSIVE findInKeys(_, _, _)

\* for (const k of Object.keys(obj)) { ... if (found) return found; }
findInKeys(es, currentPath, i) ==
    IF i > Len(es) THEN JNull
    ELSE LET k == es[i][1]
             val == es[i][2]
             path == IF currentPath # <<>> THEN currentPath \o Dot \o k ELSE k
             found == findObjectArrayPath(val, path)
         IN  IF truthy(found) THEN found ELSE findInKeys(es, currentPath, i + 1)

\* The path as a string value, or null
findObjectArrayPath(obj, currentPath) ==
    IF /\ isArray(obj)
       /\ Len(obj.v) > 0
       /\ \A i \in 1..Len(obj.v) :
             typeOf(obj.v[i]) = "object" /\ ~isArray(obj.v[i])
    THEN JStr(currentPath)
    ELSE IF truthy(obj) /\ typeOf(obj) = "object" /\ ~isArray(obj)
    THEN findInKeys(obj.v, currentPath, 1)
    ELSE JNull

\* parts.reduce((acc, key) => (acc ? acc[key] : undefined), obj)
RECURSIVE reducePath(_, _, _)
reducePath(acc, parts, i) ==
    IF i > Len(parts) THEN acc
    ELSE reducePath(IF truthy(acc) THEN Get(acc, parts[i]) ELSE JUndefined,
                    parts, i + 1)

getByPath(obj, path) == reducePath(obj, split(path), 1)

\* removePath on a value: the object with parent[last] deleted, where parent
\* is reached from obj through parts[i..Len-1] and last is parts[Len].  The
\* parents on the way are objects of the deep copy, so the deletion shows in
\* obj itself.  Nothing is deleted when the walk leaves the objects.
RECURSIVE removeAt(_, _, _)
removeAt(obj, parts, i) ==
    IF ~(truthy(obj) /\ obj.t = "object") THEN obj
    ELSE IF i = Len(parts) THEN JObj(Delete(obj.v, parts[i]))
    ELSE IF HasKey(obj.v, parts[i])
    THEN JObj([obj.v EXCEPT ![IndexOfKey(obj.v, parts[i])] =
                  <<parts[i], removeAt(obj.v[IndexOfKey(obj.v, parts[i])][2],
                                       parts, i + 1)>>])
    ELSE obj

removePath(obj, path) == removeAt(obj, split(path), 1)

ValueKey == <<"v", "a", "l", "u", "e">>

\* A slip: every element is flattened, none is wrapped as {value: item}
rootArrayRowNoWrap(item) == flattenObject(item, <<>>)

\* json.forEach((item) => ...) on a root array
rootArrayRow(item) ==
    IF truthy(item) /\ typeOf(item) = "object"
    THEN flattenObject(item, <<>>)
    ELSE JObj(<< <<ValueKey, item>> >>)

\* Object.entries(elFlatten).forEach(([k, v]) => prefixed[`${arrayPath}.${k}`] = v)
RECURSIVE prefixEntries(_, _, _, _)
prefixEntries(es, arrayPath, i, prefixed) ==
    IF i > Len(es) THEN prefixed
    ELSE prefixEntries(es, arrayPath, i + 1,
                       Put(prefixed, arrayPath \o Dot \o es[i][1], es[i][2]))

\* arr.forEach((el) => ...) with the base row
arrayPathRow(el, arrayPath, baseFlatten) ==
    IF truthy(el) /\ typeOf(el) = "object"
    THEN JObj(ObjectAssign(ObjectAssign(<<>>, baseFlatten.v),
                           prefixEntries(flattenObject(el, <<>>).v,
                                         arrayPath, 1, <<>>)))
    ELSE JObj(Put(ObjectAssign(<<>>, baseFlatten.v), arrayPath, el))

parseJsonToRows(json) ==
    IF isArray(json)
    THEN [threw |-> FALSE,
          rows  |-> [i \in 1..Len(json.v) |-> rootArrayRow(json.v[i])]]
    ELSE IF truthy(json) /\ typeOf(json) = "object"
    THEN LET arrayPath == findObjectArrayPath(json, <<>>)
         IN  IF truthy(arrayPath)
             THEN LET arr == getByPath(json, arrayPath.v)
                      baseFlatten ==
                          flattenObject(removePath(json, arrayPath.v), <<>>)
                  IN  IF ~isArray(arr)
                      \* arr.forEach is not a function, or arr is undefined
                      THEN [threw |-> TRUE, rows |-> <<>>]
                      ELSE [threw |-> FALSE,
                            rows  |-> [i \in 1..Len(arr.v) |->
                                arrayPathRow(arr.v[i], arrayPath.v, baseFlatten)]]
             ELSE [threw |-> FALSE, rows |-> <<flattenObject(json, <<>>)>>]
    ELSE [threw |-> FALSE, rows |-> <<>>]

-----------------------------------------------------------------------------
(* getFileExtension and the extension dispatch of reader.onload *)

UpperCase == <<"A", "B", "C", "D", "E", "F", "G", "H", "I", "J", "K", "L", "M",
               "N", "O", "P", "Q", "R", "S", "T", "U", "V", "W", "X", "Y", "Z">>

LowerCase == <<"a", "b", "c", "d", "e", "f", "g", "h", "i", "j", "k", "l", "m",
               "n", "o", "p", "q", "r", "s", "t", "u", "v", "w", "x", "y", "z">>

toLowerChar(c) ==
    IF \E i \in 1..26 : UpperCase[i] = c
    THEN LowerCase[CHOOSE i \in 1..26 : UpperCase[i] = c]
    ELSE c

\* s.toLowerCase()
toLowerCase(s) == [i \in 1..Len(s) |-> toLowerChar(s[i])]

\* name.lastIndexOf('.'), zero-based, -1 when there is none
lastIndexOf(name, c) ==
    IF \E i \in 1..Len(name) : name[i] = c
    THEN (CHOOSE i \in 1..Len(name) :
             name[i] = c /\ \A j \in (i + 1)..Len(name) : name[j] # c) - 1
    ELSE -1

\* name.substring(from), zero-based from
substring(name, from) == SubSeq(name, from + 1, Len(name))

\* A slip: the case of the extension is kept
getFileExtensionKeepsCase(name) ==
    LET idx == lastIndexOf(name, ".")
    IN  IF idx = -1 THEN <<>> ELSE substring(name, idx + 1)

getFileExtension(name) ==
    LET idx == lastIndexOf(name, ".")
    IN  IF idx = -1 THEN <<>> ELSE toLowerCase(substring(name, idx + 1))

ExtCsv == <<"c", "s", "v">>

ExtTsv == <<"t", "s", "v">>

ExtTxt == <<"t", "x", "t">>

ExtJson == <<"j", "s", "o", "n">>

ExtXml == <<"x", "m", "l">>

Tab == <<"\t">>

\* The if / else-if chain of reader.onload: which parser the extension
\* selects and, for Papa.parse, the delimiter option.  parser "none" is the
\* final else, which throws before any parser is called.
selectAdapter(ext) ==
    IF ext = ExtCsv \/ ext = ExtTsv \/ ext = ExtTxt
    THEN [parser |-> "Papa.parse",
          delimiter |-> IF ext = ExtTsv THEN Tab ELSE <<>>]
    ELSE IF ext = ExtJson THEN [parser |-> "JSON.parse", delimiter |-> <<>>]
    ELSE IF ext = ExtXml THEN [parser |-> "DOMParser", delimiter |-> <<>>]
    ELSE [parser |-> "none", delimiter |-> <<>>]

-----------------------------------------------------------------------------
(* parseXmlToRows, part_000:43-79.  xmlDoc is what DOMParser returned:     *)
(* parsererror is the number of <parsererror> elements in it, children are *)
(* the element children of the document element.  An element is            *)
(* [tagName, attributes, children, textContent].                           *)

WhiteSpace == {" ", "\t", "\n", "\r"}

\* s.trim()
RECURSIVE trim(_)
trim(s) ==
    IF s = <<>> THEN s
    ELSE IF s[1] \in WhiteSpace THEN trim(Tail(s))
    ELSE IF s[Len(s)] \in WhiteSpace THEN trim(SubSeq(s, 1, Len(s) - 1))
    ELSE s

\* nodeListToArray(child.attributes).forEach((attr) => rowObj[attr.name] = attr.value)
RECURSIVE xmlAttributes(_, _, _)
xmlAttributes(attrs, i, rowObj) ==
    IF i > Len(attrs) THEN rowObj
    ELSE xmlAttributes(attrs, i + 1, Put(rowObj, attrs[i][1], JStr(attrs[i][2])))

\* nodeListToArray(child.children).forEach((sub) => rowObj[sub.tagName] = text)
RECURSIVE xmlSubElements(_, _, _)
xmlSubElements(subs, i, rowObj) ==
    IF i > Len(subs) THEN rowObj
    ELSE xmlSubElements(subs, i + 1,
             Put(rowObj, subs[i].tagName, JStr(trim(subs[i].textContent))))

\* The body of children.forEach((child) => ...): the row object of one child
xmlRowObj(child) ==
    LET withAttrs == xmlAttributes(child.attributes, 1, <<>>)
    IN  IF Len(child.children) > 0
        THEN xmlSubElements(child.children, 1, withAttrs)
        ELSE IF trim(child.textContent) # <<>>
        THEN Put(withAttrs, child.tagName, JStr(trim(child.textContent)))
        ELSE withAttrs

\* if (Object.keys(rowObj).length > 0) rows.push(rowObj)
RECURSIVE xmlRows(_, _)
xmlRows(children, i) ==
    IF i > Len(children) THEN <<>>
    ELSE LET rowObj == xmlRowObj(children[i])
         IN  (IF Len(rowObj) > 0 THEN <<JObj(rowObj)>> ELSE <<>>)
                 \o xmlRows(children, i + 1)

parseXmlToRows(xmlDoc) ==
    IF xmlDoc.parsererror > 0
    THEN [threw |-> TRUE, rows |-> <<>>]
    ELSE [threw |-> FALSE, rows |-> xmlRows(xmlDoc.children, 1)]

-----------------------------------------------------------------------------
(* Numbers: parseFloat, isNaN, isFinite and isNumeric, part_000:267-269.   *)
(* An integer is JNum(n); m / 10^e with e > 0 and m not a multiple of 10   *)
(* is JDec(m, e).  The strings of the model hold no exponent part and no   *)
(* binary or octal prefix.                                                 *)

JDec(m, e) == [t |-> "decimal", v |-> <<m, e>>]

JNaN == [t |-> "NaN", v |-> 0]

JInfinity(sign) == [t |-> "Infinity", v |-> sign]

InfinityWord == <<"I", "n", "f", "i", "n", "i", "t", "y">>

HexDigits == <<"0", "1", "2", "3", "4", "5", "6", "7", "8", "9",
               "a", "b", "c", "d", "e", "f">>

\* The number sign * m / 10^e, with the trailing zeros of the fraction dropped
RECURSIVE MakeNumber(_, _, _)
MakeNumber(sign, m, e) ==
    IF e = 0 THEN JNum(sign * m)
    ELSE IF m % 10 = 0 THEN MakeNumber(sign, m \div 10, e - 1)
    ELSE JDec(sign * m, e)

\* Length of the longest prefix of s made of decimal digits
RECURSIVE DigitPrefixLen(_)
DigitPrefixLen(s) ==
    IF s # <<>> /\ s[1] \in DigitChars THEN 1 + DigitPrefixLen(Tail(s)) ELSE 0

\* s.startsWith(word)
StartsWith(s, word) == Len(s) >= Len(word) /\ SubSeq(s, 1, Len(word)) = word

\* The longest prefix of s that is a StrDecimalLiteral: its value and the
\* number of characters it takes; NaN when there is none
ScanDecimal(s) ==
    LET signLen == IF s # <<>> /\ s[1] \in {"+", "-"} THEN 1 ELSE 0
        sign == IF s # <<>> /\ s[1] = "-" THEN 0 - 1 ELSE 1
        body == SubSeq(s, signLen + 1, Len(s))
        a == DigitPrefixLen(body)
        hasDot == Len(body) > a /\ body[a + 1] = "."
        b == IF hasDot THEN DigitPrefixLen(SubSeq(body, a + 2, Len(body))) ELSE 0
        digits == SubSeq(body, 1, a) \o SubSeq(body, a + 2, a + 1 + b)
    IN  IF StartsWith(body, InfinityWord)
        THEN [value |-> JInfinity(sign), len |-> signLen + Len(InfinityWord)]
        ELSE IF a = 0 /\ b = 0 THEN [value |-> JNaN, len |-> 0]
        ELSE [value |-> MakeNumber(sign, StrToNat(digits), b),
              len |-> signLen + a + (IF hasDot THEN 1 + b ELSE 0)]

\* s.trimStart()
RECURSIVE trimStart(_)
trimStart(s) ==
    IF s # <<>> /\ s[1] \in WhiteSpace THEN trimStart(Tail(s)) ELSE s

\* parseFloat(value): ToString(value), leading white space skipped, then the
\* longest numeric prefix.  String(array) joins the elements with ',', so
\* only the first element can give a prefix.
RECURSIVE parseFloat(_)
parseFloat(value) ==
    CASE value.t = "string" -> ScanDecimal(trimStart(value.v)).value
      [] value.t \in {"number", "decimal", "Infinity"} -> value
      [] value.t = "array" ->
            IF value.v = <<>> \/ value.v[1].t \in {"null", "undefined"}
            THEN JNaN ELSE parseFloat(value.v[1])
      [] OTHER -> JNaN

\* The value of the hexadecimal digits s
RECURSIVE HexToNat(_)
HexToNat(s) ==
    IF s = <<>> THEN 0
    ELSE 16 * HexToNat(SubSeq(s, 1, Len(s) - 1))
           + (CHOOSE i \in 1..16 : HexDigits[i] = toLowerChar(s[Len(s)])) - 1

IsHexLiteral(s) ==
    /\ Len(s) > 2
    /\ s[1] = "0"
    /\ s[2] \in {"x", "X"}
    /\ \A i \in 3..Len(s) : \E h \in 1..16 : HexDigits[h] = toLowerChar(s[i])

\* Number(s) for a string: the whole trimmed text must be a numeric literal
StringToNumber(s) ==
    LET text == trim(s)
        scan == ScanDecimal(text)
    IN  IF text = <<>> THEN JNum(0)
        ELSE IF IsHexLiteral(text) THEN JNum(HexToNat(SubSeq(text, 3, Len(text))))
        ELSE IF scan.len = Len(text) THEN scan.value
        ELSE JNaN

\* ToNumber(value), the coercion inside the global isFinite and isNaN
RECURSIVE ToNumber(_)
ToNumber(value) ==
    CASE value.t = "string" -> StringToNumber(value.v)
      [] value.t \in {"number", "decimal", "Infinity", "NaN"} -> value
      [] value.t = "null" -> JNum(0)
      [] value.t = "boolean" -> IF value.v THEN JNum(1) ELSE JNum(0)
      [] value.t = "array" ->
            IF value.v = <<>> THEN JNum(0)
            ELSE IF Len(value.v) > 1 THEN JNaN
            ELSE IF value.v[1].t \in {"null", "undefined"} THEN JNum(0)
            ELSE IF value.v[1].t = "object" THEN JNaN
            ELSE ToNumber(value.v[1])
      [] OTHER -> JNaN

\* isNaN(value)
isNaN(value) == ToNumber(value).t = "NaN"

\* isFinite(value)
isFinite(value) == ToNumber(value).t \notin {"NaN", "Infinity"}

\* A slip: the isFinite test on the original value is left out
isNumericPrefixOnly(value) == ~isNaN(parseFloat(value))

\* return !isNaN(parseFloat(value)) && isFinite(value)
isNumeric(value) == ~isNaN(parseFloat(value)) /\ isFinite(value)

\* if (isNumeric(xVal)) xVal = parseFloat(xVal)
coerce(value) == IF isNumeric(value) THEN parseFloat(value) ELSE value

-----------------------------------------------------------------------------
(* Files.  A file is a name and a content; the content is a one-line text  *)
(* given by its kind and by what the parser of that kind makes of it.      *)
(* Papa.parse with header: true finds only a header row in one line, so it *)
(* returns no data for a text that is not delimited rows.                  *)

DelimitedText(rows) == [kind |-> "delimited", data |-> rows]

JsonText(doc) == [kind |-> "json", data |-> doc]

XmlText(children) == [kind |-> "xml", data |-> children]

MalformedText == [kind |-> "malformed", data |-> <<>>]

\* Papa.parse(content, {header: true, ...}).data
PapaParse(content) == IF content.kind = "delimited" THEN content.data ELSE <<>>

\* JSON.parse(content): throws a SyntaxError on a text that is not JSON
JSONparse(content) ==
    IF content.kind = "json"
    THEN [threw |-> FALSE, value |-> JsonParse(content.data)]
    ELSE [threw |-> TRUE, value |-> JUndefined]

TagParsererror == <<"p", "a", "r", "s", "e", "r", "e", "r", "r", "o", "r">>

\* xmlDoc.getElementsByTagName(tag).length on a well-formed document: the
\* elements of that name among the children and grandchildren of the root
getElementsByTagName(children, tag) ==
    Cardinality({i \in 1..Len(children) : children[i].tagName = tag})
    + Cardinality(UNION {{<<i, j>> : j \in {k \in 1..Len(children[i].children) :
                                            children[i].children[k].tagName = tag}} :
                            i \in 1..Len(children)})

\* new DOMParser().parseFromString(content, 'text/xml'): a text that is not
\* XML gives a document that holds a <parsererror> element
DOMParse(content) ==
    IF content.kind = "xml"
    THEN [parsererror |-> getElementsByTagName(content.data, TagParsererror),
          children |-> content.data]
    ELSE [parsererror |-> 1, children |-> <<>>]

KeyA == <<"a">>

KeyT == <<"t">>

KeyR == <<"r">>

KeyAB == <<"a", ".", "b">>

NameCsv == <<"a", ".", "c", "s", "v">>

NameJson == <<"b", ".", "J", "s", "o", "n">>

NameXml == <<"c", ".", "x", "m", "l">>

NameXyz == <<"d", ".", "x", "y", "z">>

\* a,\n1        one row {a: "1"}
CsvRows == << JObj(<< <<KeyA, JStr(<<"1">>)>> >>) >>

\* {"r": [{"t": 1}, {"t": 2}]}
DocNested ==
    JObj(<< <<KeyR, JArr(<< JObj(<< <<KeyT, JNum(1)>> >>),
                            JObj(<< <<KeyT, JNum(2)>> >>) >>)>> >>)

\* {"a.b": [null]}
DocDotted == JObj(<< <<KeyAB, JArr(<<JNull>>)>> >>)

\* <root><i a="2"/><i> </i><i a="3"><t>x</t></i></root>
XmlChildren ==
    << [tagName |-> <<"i">>, attributes |-> << <<KeyA, <<"2">>>> >>,
        children |-> <<>>, textContent |-> <<>>],
       [tagName |-> <<"i">>, attributes |-> <<>>,
        children |-> <<>>, textContent |-> <<" ">>],
       [tagName |-> <<"i">>, attributes |-> << <<KeyA, <<"3">>>> >>,
        children |-> << [tagName |-> KeyT, attributes |-> <<>>,
                         children |-> <<>>, textContent |-> <<"x">>] >>,
        textContent |-> <<"x">>] >>

-----------------------------------------------------------------------------
(* reader.onload: the try block *)

\* script.js:104-118 (and 492-506): the JSON branch of the two older variants
legacyJsonRows(json) ==
    IF isArray(json)
    THEN [threw |-> FALSE, rows |-> json.v]
    ELSE IF typeOf(json) = "object" /\ json.t # "null"
    THEN LET es == json.v
         IN  IF \E i \in 1..Len(es) : isArray(es[i][2])
             THEN LET first == CHOOSE i \in 1..Len(es) :
                                  /\ isArray(es[i][2])
                                  /\ \A j \in 1..(i - 1) : ~isArray(es[j][2])
                  IN  [threw |-> FALSE, rows |-> es[first][2].v]
             ELSE [threw |-> FALSE, rows |-> <<json>>]
    ELSE [threw |-> TRUE, rows |-> <<>>]

\* The statements of the try block up to the assignment of parsedRows:
\* the local `rows`, or the message of the Error thrown before it is set
buildRows(v, ext, content) ==
    LET adapter == selectAdapter(ext)
    IN  CASE adapter.parser = "Papa.parse" ->
                [threw |-> FALSE, message |-> "", rows |-> PapaParse(content)]
          [] adapter.parser = "JSON.parse" ->
                LET parsed == JSONparse(content)
                    r == IF v = "flatten" THEN parseJsonToRows(parsed.value)
                         ELSE legacyJsonRows(parsed.value)
                IN  IF parsed.threw
                    THEN [threw |-> TRUE, message |-> "SyntaxError", rows |-> <<>>]
                    ELSE IF r.threw
                    THEN [threw |-> TRUE, rows |-> <<>>,
                          message |-> IF v = "flatten" THEN "TypeError"
                                      ELSE "Unsupported JSON structure"]
                    ELSE [threw |-> FALSE, message |-> "", rows |-> r.rows]
          [] adapter.parser = "DOMParser" ->
                LET r == parseXmlToRows(DOMParse(content))
                IN  IF r.threw
                    THEN [threw |-> TRUE, message |-> "Error parsing XML file",
                          rows |-> <<>>]
                    ELSE [threw |-> FALSE, message |-> "", rows |-> r.rows]
          [] OTHER ->
                [threw |-> TRUE, message |-> "Unsupported file type", rows |-> <<>>]

\* A slip: the keys of the last row are listed
populateFieldListLastRow(rows) ==
    IF Len(rows) = 0 THEN [threw |-> FALSE, keys |-> <<>>]
    ELSE IF rows[Len(rows)].t \in {"null", "undefined"}
    THEN [threw |-> TRUE, keys |-> <<>>]
    ELSE [threw |-> FALSE, keys |-> ObjectKeys(rows[Len(rows)])]

\* populateFieldList(rows): the keys put into #columnList.  Object.keys
\* throws a TypeError on null; the list has been emptied by then.
populateFieldList(rows) ==
    IF Len(rows) = 0 THEN [threw |-> FALSE, keys |-> <<>>]
    ELSE IF rows[1].t \in {"null", "undefined"}
    THEN [threw |-> TRUE, keys |-> <<>>]
    ELSE [threw |-> FALSE, keys |-> ObjectKeys(rows[1])]

-----------------------------------------------------------------------------
(* The session: the globals of script.js and the DOM state they drive *)

\* Reads that may be in flight at once
MaxPending == 2

FileList ==
    << [name |-> NameCsv,  content |-> DelimitedText(CsvRows)],
       [name |-> NameJson, content |-> JsonText(DocNested)],
       [name |-> NameJson, content |-> JsonText(DocDotted)],
       [name |-> NameJson, content |-> JsonText(JNum(42))],
       [name |-> NameJson, content |-> MalformedText],
       [name |-> NameXml,  content |-> XmlText(XmlChildren)],
       [name |-> NameXml,  content |-> MalformedText],
       [name |-> NameXyz,  content |-> DelimitedText(CsvRows)] >>

Variants == {"flatten", "legacy"}

NoKeys == [x |-> JNull, y |-> JNull, group |-> JNull]

\* Plotly.newPlot(plotArea, [], ...) on DOMContentLoaded
BlankChart ==
    [kind |-> "blank", x |-> JNull, y |-> JNull, group |-> JNull, rows |-> <<>>]

\* Plotly.purge(plotArea); chartInstance.destroy() in the oldest variant
PurgedChart ==
    [kind |-> "purged", x |-> JNull, y |-> JNull, group |-> JNull, rows |-> <<>>]

\* Plotly.react(plotArea, traces, layout, config): the data of the traces
\* and the layout are functions of the three keys and the rows.  The trace
\* type and mode that chartTypeSelect picks are Plotly's vocabulary and are
\* left to the library.
PlottedChart(x, y, group, rows) ==
    [kind |-> "plot", x |-> x, y |-> y, group |-> group, rows |-> rows]

Init ==
    /\ variant \in Variants
    /\ parsedRows = <<>>
    /\ xKey = JNull
    /\ yKey = JNull
    /\ groupKey = JNull
    /\ columnList = <<>>
    /\ dropText = NoKeys
    /\ chart = BlankChart
    /\ fileInfo = JNull
    /\ pending = <<>>
    /\ dragData = JNull
    /\ alertMsg = ""
    /\ phase = "session"
    /\ arg = JNull
    /\ res = JNull

\* The readers in flight, as the ascending list of the files they read
AddPending(list, f) ==
    LET below == Cardinality({j \in 1..Len(list) : list[j] <= f})
    IN  SubSeq(list, 1, below) \o <<f>> \o SubSeq(list, below + 1, Len(list))

RemovePending(list, j) == SubSeq(list, 1, j - 1) \o SubSeq(list, j + 1, Len(list))

\* handleFile(file) up to reader.readAsText(file)
HandleFile(f) ==
    /\ Len(pending) < MaxPending
    /\ fileInfo' = JStr(FileList[f].name)
    /\ pending' = AddPending(pending, f)
    /\ alertMsg' = ""
    /\ UNCHANGED <<variant, parsedRows, xKey, yKey, groupKey, columnList,
                   dropText, chart, dragData, harnessVars>>

\* const ext = getFileExtension(file.name), for each file of FileList
ExtOf == [f \in 1..Len(FileList) |-> getFileExtension(FileList[f].name)]

\* The try block up to `parsedRows = rows`, for each variant and file
BuiltOf ==
    [v \in Variants |->
        [f \in 1..Len(FileList) |-> buildRows(v, ExtOf[f], FileList[f].content)]]

\* populateFieldList(rows) on the rows built
ListedOf ==
    [v \in Variants |->
        [f \in 1..Len(FileList) |-> populateFieldList(BuiltOf[v][f].rows)]]

\* What reader.onload does to the session: built is the try block up to
\* `parsedRows = rows`, listed is populateFieldList(rows)
OnloadResult(built, listed) ==
    [built |-> built, listed |-> listed,
     published |-> ~built.threw,
     completed |-> ~built.threw /\ ~listed.threw,
     message |-> IF built.threw THEN built.message
                 ELSE IF listed.threw THEN "TypeError" ELSE ""]

\* reader.onload's outcome for each variant on each file of FileList
OnloadOf ==
    [v \in Variants |->
        [f \in 1..Len(FileList) |-> OnloadResult(BuiltOf[v][f], ListedOf[v][f])]]

\* A slip: the table is emptied before the parse, so a failed parse leaves
\* no table
RowsAfterOnloadCleared(r, old) == IF r.published THEN r.built.rows ELSE <<>>

\* `parsedRows = rows`, reached only when nothing was thrown before it
RowsAfterOnload(r, old) == IF r.published THEN r.built.rows ELSE old

\* A slip: groupKey is not reset
SelectionAfterLoadKeepsGroup == [x |-> JNull, y |-> JNull, group |-> groupKey]

\* xKey = null; yKey = null; groupKey = null
SelectionAfterLoad == [x |-> JNull, y |-> JNull, group |-> JNull]

\* reader.onload for the j-th reader in flight
ReaderOnload(j) ==
    /\ j \in 1..Len(pending)
    /\ LET r == OnloadOf[variant][pending[j]]
       IN  /\ pending' = RemovePending(pending, j)
           /\ alertMsg' = r.message
           /\ parsedRows' = RowsAfterOnload(r, parsedRows)
           /\ columnList' = IF r.published THEN r.listed.keys ELSE columnList
           /\ IF r.completed
              THEN /\ xKey' = SelectionAfterLoad.x
                   /\ yKey' = SelectionAfterLoad.y
                   /\ groupKey' = SelectionAfterLoad.group
                   /\ dropText' = NoKeys
                   /\ chart' = PurgedChart
              ELSE UNCHANGED <<xKey, yKey, groupKey, dropText, chart>>
    /\ UNCHANGED <<variant, fileInfo, dragData, harnessVars>>

\* The dragstart listener of a field of #columnList
DragStart(i) ==
    /\ i \in 1..Len(columnList)
    /\ dragData' = JStr(columnList[i])
    /\ alertMsg' = ""
    /\ UNCHANGED <<variant, parsedRows, xKey, yKey, groupKey, columnList,
                   dropText, chart, fileInfo, pending, harnessVars>>

\* The drag ends away from the three targets
DragEnd ==
    /\ dragData # JNull
    /\ dragData' = JNull
    /\ alertMsg' = ""
    /\ UNCHANGED <<variant, parsedRows, xKey, yKey, groupKey, columnList,
                   dropText, chart, fileInfo, pending, harnessVars>>

DropTargets == {"x", "y", "group"}

\* The drop listener that setupDropTarget gives dropX, dropY or dropGroup
Drop(target) ==
    /\ dragData # JNull
    /\ LET key == dragData
       IN  IF truthy(key)
           THEN /\ xKey' = IF target = "x" THEN key ELSE xKey
                /\ yKey' = IF target = "y" THEN key ELSE yKey
                /\ groupKey' = IF target = "group" THEN key ELSE groupKey
                /\ dropText' = [dropText EXCEPT ![target] = key]
           ELSE UNCHANGED <<xKey, yKey, groupKey, dropText>>
    /\ dragData' = JNull
    /\ alertMsg' = ""
    /\ UNCHANGED <<variant, parsedRows, columnList, chart, fileInfo, pending,
                   harnessVars>>

\* row[key] throws a TypeError when the row is null
RowsReadable(rows) ==
    \A i \in 1..Len(rows) : rows[i].t \notin {"null", "undefined"}

\* A slip: the test of the two axes is left out
renderChartNoAxisCheck ==
    IF Len(parsedRows) = 0
    THEN [drawn |-> FALSE, chart |-> chart,
          message |-> "No data available to plot"]
    ELSE IF ~RowsReadable(parsedRows)
    THEN [drawn |-> FALSE, chart |-> chart, message |-> ""]
    ELSE [drawn |-> TRUE, message |-> "",
          chart |-> PlottedChart(xKey, yKey, groupKey, parsedRows)]

\* renderChart(): what it alerts and what it draws.  drawn is FALSE when it
\* returns early and when isColumnNumeric throws on a null row.
renderChart ==
    IF ~truthy(xKey) \/ ~truthy(yKey)
    THEN [drawn |-> FALSE, chart |-> chart,
          message |-> "Please assign both X and Y axes by dragging fields."]
    ELSE IF Len(parsedRows) = 0
    THEN [drawn |-> FALSE, chart |-> chart,
          message |-> "No data available to plot"]
    ELSE IF ~RowsReadable(parsedRows)
    THEN [drawn |-> FALSE, chart |-> chart, message |-> ""]
    ELSE [drawn |-> TRUE, message |-> "",
          chart |-> PlottedChart(xKey, yKey, groupKey, parsedRows)]

\* A slip: the converted number is stored back into the row
rowAfterTraceInPlace(row, x, y) ==
    LET r1 == IF isNumeric(Get(row, x))
              THEN JObj(Put(row.v, x, coerce(Get(row, x)))) ELSE row
    IN  IF isNumeric(Get(r1, y))
        THEN JObj(Put(r1.v, y, coerce(Get(r1, y)))) ELSE r1

\* The row that the forEach callback of buildTrace leaves behind: xVal and
\* yVal are locals of the callback, the conversion assigns to them and the
\* row object is only read
rowAfterTrace(row, x, y) == row

\* parsedRows after renderChart(): isColumnNumeric and groupRowsByKey read
\* the rows, and buildTrace visits every row when the chart is drawn
rowsAfterRender ==
    IF renderChart.drawn
    THEN [i \in 1..Len(parsedRows) |->
             rowAfterTrace(parsedRows[i], xKey.v, yKey.v)]
    ELSE parsedRows

\* The click listener of plotBtn
PlotClick ==
    /\ IF Len(parsedRows) = 0
       THEN /\ alertMsg' = "No data available to plot"
            /\ chart' = chart
            /\ parsedRows' = parsedRows
       ELSE /\ alertMsg' = renderChart.message
            /\ chart' = renderChart.chart
            /\ parsedRows' = rowsAfterRender
    /\ UNCHANGED <<variant, xKey, yKey, groupKey, columnList,
                   dropText, fileInfo, pending, dragData, harnessVars>>

Next ==
    \/ \E f \in 1..Len(FileList) : HandleFile(f)
    \/ \E j \in 1..MaxPending : ReaderOnload(j)
    \/ \E i \in 1..Len(columnList) : DragStart(i)
    \/ DragEnd
    \/ \E target \in DropTargets : Drop(target)
    \/ PlotClick

Spec == Init /\ [][Next]_vars

-----------------------------------------------------------------------------
(* Claims about the session, checked under Spec *)

\* The session state a load attempt must leave alone when it fails
sessionView == <<parsedRows, xKey, yKey, groupKey, chart>>

\* The j-th reader in flight fires and its handler ends in alert(err.message)
OnloadFails(j) ==
    /\ ReaderOnload(j)
    /\ OnloadOf[variant][pending[j]].message # ""

\* The j-th reader in flight fires and its handler runs to the end of the try
OnloadCompletes(j) ==
    /\ ReaderOnload(j)
    /\ OnloadOf[variant][pending[j]].completed

\* C1: a load attempt that ends in an ingestion error (unsupported
\* extension, malformed XML or JSON, any exception inside onload) leaves
\* parsedRows, xKey, yKey, groupKey and the chart as they were.
C1_ErrorLeavesSession ==
    [][\A j \in 1..Len(pending) :
          OnloadFails(j) => UNCHANGED sessionView]_vars

\* C2: whenever a load completes successfully, xKey, yKey and groupKey are
\* unset and the chart is cleared in the resulting state, whatever they were.
C2_LoadResetsSelection ==
    [][\A j \in 1..Len(pending) :
          OnloadCompletes(j) =>
              /\ xKey' = JNull
              /\ yKey' = JNull
              /\ groupKey' = JNull
              /\ dropText' = NoKeys
              /\ chart' = PurgedChart]_vars

\* A second table has been published while a field of the first one was
\* being dragged: the load reset the selection and cleared the chart
C2_Witness ==
    /\ chart = PurgedChart
    /\ xKey = JNull /\ yKey = JNull /\ groupKey = JNull
    /\ alertMsg = ""
    /\ Len(columnList) > 0
    /\ dragData # JNull
    /\ \A i \in 1..Len(columnList) : dragData.v # columnList[i]

\* Object.keys of the first row of the table: the current vocabulary
Vocabulary(rows) ==
    IF Len(rows) = 0 THEN {}
    ELSE {ObjectKeys(rows[1])[i] : i \in 1..Len(ObjectKeys(rows[1]))}

KeyValid(key) == key = JNull \/ key.v \in Vocabulary(parsedRows)

\* C3: in every reachable state each of xKey, yKey and groupKey is unset or
\* a key of the first row of parsedRows.
C3_SelectionInVocabulary ==
    KeyValid(xKey) /\ KeyValid(yKey) /\ KeyValid(groupKey)

\* The tables the files of the session give, each complete
CompleteTables(v) ==
    {OnloadOf[v][f].built.rows :
        f \in {g \in 1..Len(FileList) : OnloadOf[v][g].published}}

\* C4: parsedRows is replaced in one step, by the complete table of a read
\* whose parsing finished without error; a reader of parsedRows sees the
\* previous table or the new one, never a part of one.
C4_AtomicPublication ==
    [][\/ parsedRows' = parsedRows
       \/ \E j \in 1..Len(pending) :
             /\ ReaderOnload(j)
             /\ OnloadOf[variant][pending[j]].published
             /\ parsedRows' = OnloadOf[variant][pending[j]].built.rows
             /\ parsedRows' \in CompleteTables(variant)]_vars

\* A parse has failed over a published table while another read is in flight
C4_Witness ==
    /\ Len(parsedRows) > 0
    /\ alertMsg \in {"Error parsing XML file", "SyntaxError", "TypeError"}
    /\ Len(pending) > 0
    /\ parsedRows \in CompleteTables(variant)

\* A .json file whose text is a JSON number, string, boolean or null
IsScalarJson(file) ==
    /\ getFileExtension(file.name) = ExtJson
    /\ file.content.kind = "json"
    /\ file.content.data.t \in {"number", "string", "boolean", "null"}

\* C6: loading a .json file whose value is neither an object nor an array
\* ends in the UnsupportedJsonStructure error: the error is surfaced, no
\* Row Table is published, the selection and the chart are not reset.
C6_ScalarJsonIsAnError ==
    [][\A j \in 1..Len(pending) :
          (ReaderOnload(j) /\ IsScalarJson(FileList[pending[j]])) =>
              /\ alertMsg' = "Unsupported JSON structure"
              /\ UNCHANGED sessionView]_vars

\* The keys of the first row of a table, in the row's key order
FirstRowKeys(rows) ==
    IF rows = <<>> THEN <<>>
    ELSE [i \in 1..Len(rows[1].v) |-> rows[1].v[i][1]]

\* C18: after every successful load the field list is exactly the keys of
\* the first row of the newly published table, in that row's order, and is
\* empty for a table without rows: no key of a later row only, no key of
\* the table before.
C18_FieldListIsFirstRowKeys ==
    [][\A j \in 1..Len(pending) :
          OnloadCompletes(j) => columnList' = FirstRowKeys(parsedRows')]_vars

\* c.xml has been loaded over a table with the column t: its second row has
\* the key t, its first row and the field list have not
C18_Witness ==
    /\ alertMsg = ""
    /\ chart = PurgedChart
    /\ fileInfo = JStr(NameXml)
    /\ Len(parsedRows) = 2
    /\ HasKey(parsedRows[2].v, KeyT)
    /\ columnList = <<KeyA>>
    /\ dragData = JStr(KeyT)

\* C19: rendering is read-only on the session: a click on Plot, whether it
\* draws a chart or returns early, leaves parsedRows, xKey, yKey and
\* groupKey as they were; the numbers made of numeric texts go to the trace
\* arrays only.
C19_RenderReadOnly ==
    [][PlotClick => UNCHANGED <<parsedRows, xKey, yKey, groupKey>>]_vars

\* A chart has been drawn over the column a of a.csv, whose cell "1" is
\* plotted as the number 1 and is still the text "1" in parsedRows
C19_Witness ==
    /\ chart.kind = "plot"
    /\ chart.rows = parsedRows
    /\ xKey = JStr(KeyA)
    /\ chart.x = xKey
    /\ parsedRows = CsvRows
    /\ Get(parsedRows[1], KeyA) = JStr(<<"1">>)
    /\ coerce(Get(parsedRows[1], KeyA)) = JNum(1)

\* The only read in flight is of a file other than the one the label names:
\* the labelled file was issued later and its read is over
Superseded ==
    /\ Len(pending) = 1
    /\ fileInfo # JStr(FileList[pending[1]].name)

\* C20: a load that a later load has overtaken never publishes: when the
\* read of the earlier file completes after the read of the file named in
\* the label, parsedRows and the field list stay those of the later file.
C20_SupersededLoadNeverPublishes ==
    [][(Superseded /\ ReaderOnload(1)) =>
          UNCHANGED <<parsedRows, columnList>>]_vars

-----------------------------------------------------------------------------
(* The pure functions are applied to inputs drawn in Init.  The session    *)
(* stays as it is after construction.                                      *)

SessionIdle ==
    /\ variant = "flatten"
    /\ parsedRows = <<>>
    /\ xKey = JNull
    /\ yKey = JNull
    /\ groupKey = JNull
    /\ columnList = <<>>
    /\ dropText = NoKeys
    /\ chart = BlankChart
    /\ fileInfo = JNull
    /\ pending = <<>>
    /\ dragData = JNull
    /\ alertMsg = ""

\* All sequences over S of length at most n
SeqsUpTo(S, n) == UNION {[1..m -> S] : m \in 0..n}

-----------------------------------------------------------------------------
(* SpecExt: getFileExtension and the dispatch, on file names *)

\* Length of the part of a name before its last piece
MaxStemLen == 2

\* Stems of at most n characters
Stems(n) == SeqsUpTo({"a", "."}, n)

ExtWords ==
    { ExtCsv, ExtTsv, ExtTxt, ExtJson, ExtXml,
      <<"C", "S", "V">>, <<"T", "s", "v">>, <<"t", "X", "T">>,
      <<"J", "S", "O", "N">>, <<"X", "m", "l">>,
      <<"x", "y", "z">>, <<"c", "s">>, <<"c", "s", "v", "x">>,
      <<"j", "s">>, <<>>, <<"c", "s", "v", ".", "T", "s", "v">> }

FileNames(n) == {stem \o word : stem \in Stems(n), word \in ExtWords}

FileContents == {DelimitedText(CsvRows), JsonText(DocNested), MalformedText}

InitExt ==
    /\ SessionIdle
    /\ phase = "file"
    /\ arg \in [name : FileNames(MaxStemLen), content : FileContents]
    /\ res = JNull

\* const ext = getFileExtension(file.name)
ExtractExtension ==
    /\ phase = "file"
    /\ phase' = "ext"
    /\ res' = getFileExtension(arg.name)
    /\ UNCHANGED <<arg, sessionVars>>

\* The if / else-if chain of reader.onload on that extension
Dispatch ==
    /\ phase = "ext"
    /\ phase' = "dispatched"
    /\ res' = [ext     |-> res,
               adapter |-> selectAdapter(res),
               built   |-> buildRows("flatten", res, arg.content)]
    /\ UNCHANGED <<arg, sessionVars>>

NextExt == ExtractExtension \/ Dispatch

SpecExt == InitExt /\ [][NextExt]_vars

\* The longest suffix of a name that holds no '.'
DotFreeSuffixLen(name) ==
    CHOOSE n \in 0..Len(name) :
        /\ \A i \in (Len(name) - n + 1)..Len(name) : name[i] # "."
        /\ (n < Len(name) => name[Len(name) - n] = ".")

\* C5: the extension is the lower-cased text after the last '.', empty when
\* there is no '.'; csv, tsv and txt select Papa.parse (tab delimiter for tsv
\* only), json selects JSON.parse, xml selects the DOMParser, and every
\* other extension fails as unsupported with no parser called.
C5_ExtensionDispatch ==
    phase = "dispatched" =>
        LET name == arg.name
            n == DotFreeSuffixLen(name)
            after == SubSeq(name, Len(name) - n + 1, Len(name))
            ext == res.ext
        IN  /\ (n = Len(name) => ext = <<>>)
            /\ (n < Len(name) =>
                    /\ Len(ext) = n
                    /\ \A i \in 1..n :
                          \/ ext[i] = after[i]
                          \/ \E c \in 1..26 :
                                after[i] = UpperCase[c] /\ ext[i] = LowerCase[c]
                    /\ \A i \in 1..n : \A c \in 1..26 : ext[i] # UpperCase[c])
            /\ (ext \in {ExtCsv, ExtTsv, ExtTxt} =>
                    /\ res.adapter.parser = "Papa.parse"
                    /\ ~res.built.threw
                    /\ res.built.rows = PapaParse(arg.content)
                    /\ (res.adapter.delimiter = Tab <=> ext = ExtTsv)
                    /\ (ext # ExtTsv => res.adapter.delimiter = <<>>))
            /\ (ext = ExtJson => res.adapter.parser = "JSON.parse")
            /\ (ext = ExtXml => res.adapter.parser = "DOMParser")
            /\ (ext \notin {ExtCsv, ExtTsv, ExtTxt, ExtJson, ExtXml} =>
                    /\ res.adapter.parser = "none"
                    /\ res.built.threw
                    /\ res.built.message = "Unsupported file type"
                    /\ res.built.rows = <<>>)

\* a.csv.Tsv: the text after the last dot, lower-cased, chose the tab parser
C5_Witness ==
    /\ phase = "dispatched"
    /\ arg.name = <<"a", ".", "c", "s", "v", ".", "T", "s", "v">>
    /\ res.ext = ExtTsv
    /\ res.adapter.delimiter = Tab

-----------------------------------------------------------------------------
(* SpecJson: flattenObject and parseJsonToRows, on JSON documents.  A      *)
(* document is the JSON text as written: its members in text order.       *)

\* Elements of the arrays of a document
MaxArrLen == 2

KeyB == <<"b">>

Key1 == <<"1">>

KeyEmpty == <<>>

RootKeys == {KeyA, Key1, KeyAB, KeyEmpty}

InnerKeys == {KeyB, Key1}

Scalars == {JNull, JNum(1), JStr(<<"x">>)}

\* {k: v}
Obj1(k, v) == JObj(<< <<k, v>> >>)

\* {k1: v1, k2: v2}
Obj2(k1, v1, k2, v2) == JObj(<< <<k1, v1>>, <<k2, v2>> >>)

ElemObjs ==
    { Obj1(KeyT, JNum(1)),
      Obj2(KeyT, JNum(2), Key1, Obj1(KeyB, JStr(<<"x">>))) }

Items == {JNull, JNum(1), JArr(<<JNum(1), JNull>>)} \cup ElemObjs

\* Arrays of at most n items
Arrays(n) == {JArr(xs) : xs \in SeqsUpTo(Items, n)}

\* Objects one level below the root
InnerObjs ==
    {JObj(<<>>)} \cup
    {Obj1(k, v) : k \in InnerKeys,
                  v \in {JNum(1)} \cup
                        {JArr(<<e>>) : e \in ElemObjs \cup {JNull, JObj(<<>>)}}}

RootValues(n) == Scalars \cup Arrays(n) \cup InnerObjs

\* The second member of a two-member root
SiblingValues ==
    { JNum(1), JArr(<<JNull>>), JArr(<<Obj1(KeyT, JNum(1))>>),
      Obj1(KeyB, JNum(2)), Obj1(KeyB, JArr(<<Obj1(KeyT, JNum(1))>>)) }

\* Root objects of at most two members, with arrays of at most n items
RootObjs(n) ==
    {JObj(<<>>)}
    \cup {Obj1(k, v) : k \in RootKeys, v \in RootValues(n)}
    \cup {Obj2(k1, v1, k2, v2) : k1 \in RootKeys, k2 \in RootKeys,
                                 v1 \in RootValues(n), v2 \in SiblingValues}
    \cup {Obj2(k1, v1, k2, v2) : k1 \in RootKeys, k2 \in RootKeys,
                                 v1 \in SiblingValues, v2 \in RootValues(n)}

Docs(n) == RootObjs(n) \cup Arrays(n) \cup Scalars \cup {JBool(TRUE)}

InitJson ==
    /\ SessionIdle
    /\ phase = "doc"
    /\ arg \in Docs(MaxArrLen)
    /\ res = JNull

\* const json = JSON.parse(content); rows = parseJsonToRows(json), with the
\* array path it found for a root object
ApplyParse ==
    /\ phase = "doc"
    /\ phase' = "rows"
    /\ LET json == JsonParse(arg)
       IN  res' = [json |-> json,
                   path |-> IF json.t = "object"
                            THEN findObjectArrayPath(json, <<>>) ELSE JNull,
                   out  |-> parseJsonToRows(json)]
    /\ UNCHANGED <<arg, sessionVars>>

\* flattenObject(json) on an object or an array
ApplyFlatten ==
    /\ phase = "doc"
    /\ arg.t \in {"object", "array"}
    /\ phase' = "flat"
    /\ arg' = JsonParse(arg)
    /\ res' = flattenObject(JsonParse(arg), <<>>)
    /\ UNCHANGED sessionVars

\* flattenObject of what flattenObject returned
ApplyFlattenAgain ==
    /\ phase = "flat"
    /\ phase' = "flat2"
    /\ arg' = res
    /\ res' = flattenObject(res, <<>>)
    /\ UNCHANGED sessionVars

NextJson == ApplyParse \/ ApplyFlatten \/ ApplyFlattenAgain

SpecJson == InitJson /\ [][NextJson]_vars

-----------------------------------------------------------------------------
(* Claims about parseJsonToRows and flattenObject, checked under SpecJson *)

IsPlainObject(value) == value.t = "object"

IsScalar(value) == value.t \in {"null", "number", "string", "boolean"}

\* C7 as stated: a root array gives one row per element, in order; the row
\* of a plain object is flattenObject of it, the row of anything else (a
\* scalar, null or an array) is {value: element}.
C7_RootArrayRows ==
    (phase = "rows" /\ res.json.t = "array") =>
        /\ ~res.out.threw
        /\ Len(res.out.rows) = Len(res.json.v)
        /\ \A i \in 1..Len(res.json.v) :
              LET el == res.json.v[i]
              IN  res.out.rows[i] = IF IsPlainObject(el)
                                    THEN flattenObject(el, <<>>)
                                    ELSE Obj1(ValueKey, el)

\* C7 as amended: a root array gives one row per element, in order; the row
\* of a plain object is flattenObject of it, the row of a scalar or null is
\* {value: element}, and an array element is flattened by index like an
\* object: its row has the keys "0", "1", ... of its scalar elements.
C7_RootArrayRowsAmended ==
    (phase = "rows" /\ res.json.t = "array") =>
        /\ ~res.out.threw
        /\ Len(res.out.rows) = Len(res.json.v)
        /\ \A i \in 1..Len(res.json.v) :
              LET el == res.json.v[i]
                  row == res.out.rows[i]
              IN  /\ IsPlainObject(el) => row = flattenObject(el, <<>>)
                  /\ IsScalar(el) => row = Obj1(ValueKey, el)
                  /\ isArray(el) =>
                        /\ row = flattenObject(el, <<>>)
                        /\ ~HasKey(row.v, ValueKey)
                        /\ \A j \in 1..Len(el.v) :
                              IsScalar(el.v[j]) =>
                                  /\ HasKey(row.v, NatToStr(j - 1))
                                  /\ Get(row, NatToStr(j - 1)) = el.v[j]

\* A root array with an array and a null among its elements
C7_Witness ==
    /\ phase = "rows"
    /\ res.json = JArr(<<JArr(<<JNum(1), JNull>>), JNull>>)
    /\ Len(res.out.rows) = 2
    /\ res.out.rows[1] = Obj2(<<"0">>, JNum(1), <<"1">>, JNull)
    /\ res.out.rows[2] = Obj1(ValueKey, JNull)

\* The array path of the claim: depth first, keys in order, the first path
\* whose value is a non-empty array of plain objects; JNull when there is none
RECURSIVE ClaimedArrayPath(_, _)
RECURSIVE ClaimedPathInKeys(_, _, _)

ClaimedPathInKeys(es, currentPath, i) ==
    IF i > Len(es) THEN JNull
    ELSE LET path == IF currentPath = JNull THEN es[i][1]
                     ELSE currentPath.v \o Dot \o es[i][1]
             found == ClaimedArrayPath(es[i][2], JStr(path))
         IN  IF found # JNull THEN found
             ELSE ClaimedPathInKeys(es, currentPath, i + 1)

ClaimedArrayPath(value, currentPath) ==
    IF isArray(value)
    THEN IF Len(value.v) > 0 /\ \A i \in 1..Len(value.v) : IsPlainObject(value.v[i])
         THEN currentPath ELSE JNull
    ELSE IF IsPlainObject(value) THEN ClaimedPathInKeys(value.v, currentPath, 1)
    ELSE JNull

\* C8: for a root object the array path is the first path, depth first and
\* in key order, whose value is a non-empty array of plain objects (no
\* nulls, scalars or arrays in it); when there is none, no path is reported
\* and the root is flattened into exactly one row.
C8_FirstArrayPath ==
    (phase = "rows" /\ res.json.t = "object") =>
        LET claimed == ClaimedArrayPath(res.json, JNull)
        IN  /\ res.path = claimed
            /\ claimed = JNull =>
                  /\ ~res.out.threw
                  /\ res.out.rows = <<flattenObject(res.json, <<>>)>>

\* The key paths, through objects only, to the non-empty arrays of plain
\* objects of a value
RECURSIVE ObjectArrayKeyPaths(_, _)
ObjectArrayKeyPaths(value, keys) ==
    IF isArray(value)
    THEN IF Len(value.v) > 0 /\ \A i \in 1..Len(value.v) : IsPlainObject(value.v[i])
         THEN {keys} ELSE {}
    ELSE IF IsPlainObject(value)
    THEN UNION {ObjectArrayKeyPaths(value.v[i][2], Append(keys, value.v[i][1])) :
                   i \in 1..Len(value.v)}
    ELSE {}

\* The value at a key path
RECURSIVE ValueAt(_, _, _)
ValueAt(value, keys, i) ==
    IF i > Len(keys) THEN value ELSE ValueAt(Get(value, keys[i]), keys, i + 1)

\* The object without the member at a key path
RECURSIVE WithoutKeyPath(_, _, _)
WithoutKeyPath(obj, keys, i) ==
    IF i = Len(keys) THEN JObj(Delete(obj.v, keys[i]))
    ELSE JObj([obj.v EXCEPT ![IndexOfKey(obj.v, keys[i])] =
                  <<keys[i], WithoutKeyPath(Get(obj, keys[i]), keys, i + 1)>>])

\* k1.k2. ... .kn
RECURSIVE JoinDots(_, _)
JoinDots(keys, i) ==
    IF i = Len(keys) THEN keys[i] ELSE keys[i] \o Dot \o JoinDots(keys, i + 1)

\* C9: a root object with exactly one nested array of objects, at path P,
\* gives one row per element of that array, in order; row i holds every
\* field of the flattened root-without-P with its value and, for every key k
\* of flattenObject(element i), the key P.k with the element's value.
C9_BasePropagation ==
    (/\ phase = "rows"
     /\ res.json.t = "object"
     /\ Cardinality(ObjectArrayKeyPaths(res.json, <<>>)) = 1) =>
        LET keys == CHOOSE kp \in ObjectArrayKeyPaths(res.json, <<>>) : TRUE
            P == JoinDots(keys, 1)
            arr == ValueAt(res.json, keys, 1)
            base == flattenObject(WithoutKeyPath(res.json, keys, 1), <<>>)
        IN  /\ ~res.out.threw
            /\ Len(res.out.rows) = Len(arr.v)
            /\ \A i \in 1..Len(res.out.rows) :
                  LET row == res.out.rows[i]
                      el == flattenObject(arr.v[i], <<>>)
                  IN  /\ \A b \in 1..Len(base.v) :
                            /\ HasKey(row.v, base.v[b][1])
                            /\ Get(row, base.v[b][1]) = base.v[b][2]
                      /\ \A e \in 1..Len(el.v) :
                            /\ HasKey(row.v, P \o Dot \o el.v[e][1])
                            /\ Get(row, P \o Dot \o el.v[e][1]) = el.v[e][2]

RECURSIVE ClaimedPairs(_, _)
ClaimedPairs(value, key) ==
    IF IsPlainObject(value)
    THEN UNION {ClaimedPairs(value.v[i][2],
                             IF key = JNull THEN JStr(value.v[i][1])
                             ELSE JStr(key.v \o Dot \o value.v[i][1])) :
                   i \in 1..Len(value.v)}
    ELSE IF isArray(value)
    THEN UNION {ClaimedPairs(value.v[i],
                             JStr(key.v \o <<"[">> \o NatToStr(i - 1) \o <<"]">>)) :
                   i \in 1..Len(value.v)}
    ELSE {<<key.v, value>>}

\* C11: every value of flattenObject(o) is a scalar or null, and a scalar
\* reached through the keys k1..kn is stored under k1.k2...kn, with [index]
\* appended for each array position.
C11_FlattenScalarsAtPaths ==
    (phase = "flat" /\ IsPlainObject(arg)) =>
        /\ \A i \in 1..Len(res.v) : IsScalar(res.v[i][2])
        /\ \A p \in ClaimedPairs(arg, JNull) :
              HasKey(res.v, p[1]) /\ Get(res, p[1]) = p[2]

-----------------------------------------------------------------------------
(* SpecXml: parseXmlToRows on well-formed XML documents, given by the      *)
(* element children of their root                                          *)

\* Children of the root of a document
MaxChildren == 2

TagItem == <<"i">>

TagName == <<"n">>

Element(tagName, attributes, children, textContent) ==
    [tagName |-> tagName, attributes |-> attributes,
     children |-> children, textContent |-> textContent]

AttributeLists == {<<>>, << <<KeyA, <<"1">>>> >>}

\* <n>A</n>, <n> B </n>, <a>2</a>, <parsererror>e</parsererror>
Grandchildren ==
    { Element(TagName, <<>>, <<>>, <<"A">>),
      Element(TagName, <<>>, <<>>, <<" ", "B", " ">>),
      Element(KeyA, <<>>, <<>>, <<"2">>),
      Element(TagParsererror, <<>>, <<>>, <<"e">>) }

\* Children of the root: without and with child elements of their own
RootChildren ==
    {Element(tag, attrs, <<>>, text) :
        tag \in {TagItem, KeyA}, attrs \in AttributeLists,
        text \in {<<>>, <<" ">>, <<" ", "x">>}}
    \cup {Element(TagItem, attrs, <<g>>, <<>>) :
            attrs \in AttributeLists, g \in Grandchildren}
    \cup {Element(TagItem, attrs, <<g, h>>, <<>>) :
            attrs \in AttributeLists, g \in Grandchildren, h \in Grandchildren}

XmlDocs(n) == SeqsUpTo(RootChildren, n)

InitXml ==
    /\ SessionIdle
    /\ phase = "xml"
    /\ arg \in XmlDocs(MaxChildren)
    /\ res = JNull

\* rows = parseXmlToRows(content)
ApplyXml ==
    /\ phase = "xml"
    /\ phase' = "rows"
    /\ res' = parseXmlToRows(DOMParse(XmlText(arg)))
    /\ UNCHANGED <<arg, sessionVars>>

NextXml == ApplyXml

SpecXml == InitXml /\ [][NextXml]_vars

\* The keys a child of the root is said to yield
ClaimedXmlKeys(child) ==
    {child.attributes[i][1] : i \in 1..Len(child.attributes)}
    \cup (IF Len(child.children) > 0
          THEN {child.children[j].tagName : j \in 1..Len(child.children)}
          ELSE IF trim(child.textContent) # <<>> THEN {child.tagName} ELSE {})

YieldsKeys(child) == ClaimedXmlKeys(child) # {}

\* C12: for a well-formed document parseXmlToRows returns, in document
\* order, one row per child of the root that yields a key; the row holds the
\* child's attributes plus one key per grandchild tag with the trimmed text
\* of the last grandchild of that tag or, without grandchildren and with a
\* non-empty trimmed text, the child's own tag with that text.
C12_XmlRows ==
    phase = "rows" =>
        LET yielding == SelectSeq(arg, YieldsKeys)
        IN  /\ ~res.threw
            /\ Len(res.rows) = Len(yielding)
            /\ \A k \in 1..Len(res.rows) :
                  LET child == yielding[k]
                      row == res.rows[k]
                  IN  /\ {row.v[e][1] : e \in 1..Len(row.v)} = ClaimedXmlKeys(child)
                      /\ \A i \in 1..Len(child.attributes) :
                            Get(row, child.attributes[i][1])
                                = JStr(child.attributes[i][2])
                      /\ \A j \in 1..Len(child.children) :
                            (\A l \in (j + 1)..Len(child.children) :
                                child.children[l].tagName # child.children[j].tagName)
                            => Get(row, child.children[j].tagName)
                                   = JStr(trim(child.children[j].textContent))
                      /\ (Len(child.children) = 0 /\ trim(child.textContent) # <<>>)
                            => Get(row, child.tagName) = JStr(trim(child.textContent))

-----------------------------------------------------------------------------
(* SpecNum: isNumeric and the coercion of buildTrace, on cell values       *)

\* Characters of a generated cell text
MaxValueLen == 3

ValueChars == {"4", ".", "-", " ", "a"}

Word42abc == <<"4", "2", "a", "b", "c">>

Word42 == <<"4", "2">>

WordNaN == <<"N", "a", "N">>

WordHex == <<"0", "x", "1", "0">>

\* Cell texts of at most n generated characters, and some words
CellTexts(n) ==
    SeqsUpTo(ValueChars, n)
    \cup {Word42abc, Word42, WordNaN, WordHex, InfinityWord, <<"2", ".", "5">>}

\* Cell values: texts, JSON scalars and the undefined of a missing key
CellValues(n) ==
    {JStr(s) : s \in CellTexts(n)}
    \cup {JUndefined, JNull, JNum(42), JBool(TRUE)}

InitNum ==
    /\ SessionIdle
    /\ phase = "value"
    /\ arg \in CellValues(MaxValueLen)
    /\ res = JNull

\* isNumeric(value), and `if (isNumeric(xVal)) xVal = parseFloat(xVal)`
ApplyIsNumeric ==
    /\ phase = "value"
    /\ phase' = "checked"
    /\ res' = [numeric |-> isNumeric(arg), coerced |-> coerce(arg)]
    /\ UNCHANGED <<arg, sessionVars>>

NextNum == ApplyIsNumeric

SpecNum == InitNum /\ [][NextNum]_vars

\* The text begins, after white space and a sign, with a digit or with a
\* dot and a digit
HasNumericPrefix(s) ==
    LET t == trimStart(s)
        u == IF t # <<>> /\ t[1] \in {"+", "-"} THEN Tail(t) ELSE t
    IN  \/ Len(u) >= 1 /\ u[1] \in DigitChars
        \/ Len(u) >= 2 /\ u[1] = "." /\ u[2] \in DigitChars

\* C13 as stated: a string with a numeric prefix, such as "42abc", is
\* numeric and is coerced to the number of its prefix (42), while "", "NaN"
\* and undefined are not numeric.
C13_PermissiveNumeric ==
    phase = "checked" =>
        /\ (arg.t = "string" /\ HasNumericPrefix(arg.v)) => res.numeric
        /\ arg = JStr(Word42abc) => res.numeric /\ res.coerced = JNum(42)
        /\ arg \in {JStr(<<>>), JStr(WordNaN), JUndefined} => ~res.numeric

\* digits, digits.digits, digits. or .digits
IsUnsignedDecimalText(s) ==
    \E k \in 0..Len(s) :
        /\ \A i \in 1..k : s[i] \in DigitChars
        /\ \/ k = Len(s) /\ k > 0
           \/ /\ k < Len(s)
              /\ s[k + 1] = "."
              /\ \A i \in (k + 2)..Len(s) : s[i] \in DigitChars
              /\ Len(s) > 1

IsDecimalText(s) ==
    \/ IsUnsignedDecimalText(s)
    \/ s # <<>> /\ s[1] \in {"+", "-"} /\ IsUnsignedDecimalText(Tail(s))

\* C13 as amended: isNumeric is strict about trailing garbage.  A string is
\* numeric exactly when its whole trimmed text is a number ("0x10" counts
\* as one); "42abc" is not numeric and stays the string "42abc" in a trace,
\* "42" is numeric and becomes 42; "", "NaN" and undefined are not numeric.
C13_StrictNumeric ==
    phase = "checked" =>
        /\ (arg.t = "string" /\ arg.v \notin {WordHex, InfinityWord}) =>
              (res.numeric <=> IsDecimalText(trim(arg.v)))
        /\ arg = JStr(Word42abc) => ~res.numeric /\ res.coerced = arg
        /\ arg = JStr(Word42) => res.numeric /\ res.coerced = JNum(42)
        /\ arg = JStr(WordHex) => res.numeric
        /\ arg \in {JStr(<<>>), JStr(WordNaN), JUndefined} => ~res.numeric

\* "42abc" has been classified and passed through the coercion
C13_Witness ==
    /\ phase = "checked"
    /\ arg = JStr(Word42abc)
    /\ ~res.numeric
    /\ res.coerced = JStr(Word42abc)

-----------------------------------------------------------------------------
(* SpecTable: isColumnNumeric, groupRowsByKey and buildTrace, on Row        *)
(* Tables.  The functions read the globals parsedRows, xKey and yKey; here *)
(* they take them as arguments.                                            *)

\* A slip: some instead of every
isColumnNumericSome(rows, key) ==
    \E i \in 1..Len(rows) : isNumeric(Get(rows[i], key))

\* parsedRows.every((row) => isNumeric(row[key]))
isColumnNumeric(rows, key) ==
    \A i \in 1..Len(rows) : isNumeric(Get(rows[i], key))

\* String(value) as a property key, for the values a cell can hold
ToPropertyKey(value) ==
    CASE value.t = "string" -> value.v
      [] value.t = "undefined" -> <<"u", "n", "d", "e", "f", "i", "n", "e", "d">>
      [] value.t = "null" -> <<"n", "u", "l", "l">>
      [] value.t = "number" -> NatToStr(value.v)
      [] value.t = "boolean" ->
            IF value.v THEN <<"t", "r", "u", "e">> ELSE <<"f", "a", "l", "s", "e">>

\* Names that the accumulator {} inherits from Object.prototype: acc[name]
\* is a function (or the prototype itself), which is truthy and has no push
ObjectPrototypeKeys ==
    { <<"c", "o", "n", "s", "t", "r", "u", "c", "t", "o", "r">>,
      <<"t", "o", "S", "t", "r", "i", "n", "g">>,
      <<"t", "o", "L", "o", "c", "a", "l", "e", "S", "t", "r", "i", "n", "g">>,
      <<"v", "a", "l", "u", "e", "O", "f">>,
      <<"h", "a", "s", "O", "w", "n", "P", "r", "o", "p", "e", "r", "t", "y">>,
      <<"i", "s", "P", "r", "o", "t", "o", "t", "y", "p", "e", "O", "f">>,
      <<"p", "r", "o", "p", "e", "r", "t", "y", "I", "s", "E", "n", "u", "m", "e",
        "r", "a", "b", "l", "e">>,
      <<"_", "_", "p", "r", "o", "t", "o", "_", "_">> }

\* rows.reduce((acc, row) => ..., {}) from row i on.  acc[group].push(row)
\* throws a TypeError when acc[group] is an inherited member.
RECURSIVE groupReduce(_, _, _, _)
groupReduce(rows, key, i, acc) ==
    IF i > Len(rows) THEN [threw |-> FALSE, groups |-> acc]
    ELSE LET group == ToPropertyKey(Get(rows[i], key))
         IN  IF HasKey(acc, group)
             THEN groupReduce(rows, key, i + 1,
                      Put(acc, group, JArr(Append(Get(JObj(acc), group).v, rows[i]))))
             ELSE IF group \in ObjectPrototypeKeys
             THEN [threw |-> TRUE, groups |-> acc]
             ELSE groupReduce(rows, key, i + 1, Put(acc, group, JArr(<<rows[i]>>)))

\* groupRowsByKey(rows, key): the groups in the property order of the object
groupRowsByKey(rows, key) == groupReduce(rows, key, 1, <<>>)

ChartTypes == {"line", "bar", "scatter"}

\* `${yKey} vs ${xKey}`
traceName(x, y) == y \o <<" ", "v", "s", " ">> \o x

\* palette[0]
Palette0 == <<"#", "0", "2", "6", "a", "a", "7">>

\* A slip: the rows whose x value is not numeric are left out
buildTraceNumericOnly(rows, name, type, color, x, y) ==
    LET kept == {i \in 1..Len(rows) : isNumeric(Get(rows[i], x))}
        nth(k) == CHOOSE i \in kept : Cardinality({j \in kept : j <= i}) = k
    IN  [x |-> [k \in 1..Cardinality(kept) |-> coerce(Get(rows[nth(k)], x))],
         y |-> [k \in 1..Cardinality(kept) |-> coerce(Get(rows[nth(k)], y))],
         type |-> IF type = "bar" THEN "bar" ELSE "scatter",
         mode |-> IF type = "bar" THEN JUndefined
                  ELSE IF type = "line" THEN JStr("lines+markers")
                  ELSE JStr("markers"),
         name |-> name,
         marker |-> [color |-> color]]

\* buildTrace(rows, name, type, color), with the globals xKey and yKey as
\* the arguments x and y
buildTrace(rows, name, type, color, x, y) ==
    [x |-> [i \in 1..Len(rows) |-> coerce(Get(rows[i], x))],
     y |-> [i \in 1..Len(rows) |-> coerce(Get(rows[i], y))],
     type |-> IF type = "bar" THEN "bar" ELSE "scatter",
     mode |-> IF type = "bar" THEN JUndefined
              ELSE IF type = "line" THEN JStr("lines+markers")
              ELSE JStr("markers"),
     name |-> name,
     marker |-> [color |-> color]]

\* Rows of a generated table
MaxRows == 3

KeyX == <<"x">>

KeyG == <<"g">>

WordToString == <<"t", "o", "S", "t", "r", "i", "n", "g">>

\* Cells of the column x: a decimal, a word, or no cell
XCells == {JStr(<<"2", ".", "5">>), JStr(<<"x">>), JUndefined}

\* Cells of the column g: integer-like texts, a word, the name of a method
\* that every object inherits, or no cell
GCells == {JStr(<<"2">>), JStr(<<"1">>), JStr(KeyB), JStr(WordToString), JUndefined}

\* The row {x: xCell, g: gCell}, without the keys that have no cell
TableRow(xCell, gCell) ==
    JObj((IF xCell = JUndefined THEN <<>> ELSE << <<KeyX, xCell>> >>)
         \o (IF gCell = JUndefined THEN <<>> ELSE << <<KeyG, gCell>> >>))

TableRows == {TableRow(xCell, gCell) : xCell \in XCells, gCell \in GCells}

Tables(n) == SeqsUpTo(TableRows, n)

InitTable ==
    /\ SessionIdle
    /\ phase = "table"
    /\ arg \in Tables(MaxRows)
    /\ res = JNull

\* const numericX = isColumnNumeric(xKey)
ApplyColumnNumeric ==
    /\ phase = "table"
    /\ phase' = "numeric"
    /\ res' = isColumnNumeric(arg, KeyX)
    /\ UNCHANGED <<arg, sessionVars>>

\* C14: isColumnNumeric(key) is true exactly when isNumeric holds for the
\* value at key of every row: true on the empty table, true for a column of
\* numeric strings, false when one value is not numeric or one row has no
\* such key.
C14_ColumnNumeric ==
    phase = "numeric" =>
        /\ res <=> \A i \in 1..Len(arg) : isNumeric(Get(arg[i], KeyX))
        /\ arg = <<>> => res
        /\ (arg # <<>> /\ \A i \in 1..Len(arg) :
                HasKey(arg[i].v, KeyX) /\ Get(arg[i], KeyX) = JStr(<<"2", ".", "5">>))
              => res
        /\ (\E i \in 1..Len(arg) : ~HasKey(arg[i].v, KeyX)) => ~res
        /\ (\E i \in 1..Len(arg) : Get(arg[i], KeyX) = JStr(<<"x">>)) => ~res

\* Two numeric rows and then a row without the key
C14_Witness ==
    /\ phase = "numeric"
    /\ Len(arg) = 3
    /\ isNumeric(Get(arg[1], KeyX))
    /\ isNumeric(Get(arg[2], KeyX))
    /\ ~HasKey(arg[3].v, KeyX)
    /\ res = FALSE

\* const grouped = groupRowsByKey(parsedRows, groupKey)
ApplyGroup ==
    /\ phase = "table"
    /\ phase' = "grouped"
    /\ res' = groupRowsByKey(arg, KeyG)
    /\ UNCHANGED <<arg, sessionVars>>

\* const trace = buildTrace(parsedRows, `${yKey} vs ${xKey}`, selectedType,
\* colors[0]) with xKey = 'x' and yKey = 'g'
ApplyBuildTrace ==
    /\ phase = "table"
    /\ phase' = "trace"
    /\ \E type \in ChartTypes :
          res' = buildTrace(arg, traceName(KeyX, KeyG), type, Palette0, KeyX, KeyG)
    /\ UNCHANGED <<arg, sessionVars>>

NextTable == ApplyColumnNumeric \/ ApplyGroup \/ ApplyBuildTrace

SpecTable == InitTable /\ [][NextTable]_vars

\* String(row[key]): the text of the cell, "undefined" when the row has none
GroupName(row, key) ==
    IF HasKey(row.v, key) THEN Get(row, key).v
    ELSE <<"u", "n", "d", "e", "f", "i", "n", "e", "d">>

\* The distinct group names of rows in the order they are first seen
RECURSIVE FirstSeen(_, _, _)
FirstSeen(rows, key, seen) ==
    IF rows = <<>> THEN seen
    ELSE LET name == GroupName(rows[1], key)
         IN  FirstSeen(Tail(rows), key,
                       IF \E i \in 1..Len(seen) : seen[i] = name
                       THEN seen ELSE Append(seen, name))

\* C15: the partition keys of groupRowsByKey come in the order in which
\* each distinct group value is first seen in the rows, integer-like values
\* such as "2" before "1" included.
C15_FirstSeenOrder ==
    phase = "grouped" =>
        /\ ~res.threw
        /\ [i \in 1..Len(res.groups) |-> res.groups[i][1]] = FirstSeen(arg, KeyG, <<>>)

\* The rows of a group name, in input order
RECURSIVE RowsNamed(_, _, _)
RowsNamed(rows, key, name) ==
    IF rows = <<>> THEN <<>>
    ELSE (IF GroupName(rows[1], key) = name THEN <<rows[1]>> ELSE <<>>)
            \o RowsNamed(Tail(rows), key, name)

\* The sum of the lengths of the groups from entry i on
RECURSIVE GroupSizes(_, _)
GroupSizes(groups, i) ==
    IF i > Len(groups) THEN 0 ELSE Len(groups[i][2].v) + GroupSizes(groups, i + 1)

\* C16: groupRowsByKey(rows, key) is a partition of rows: every row is in
\* exactly one group, the one under String(row[key]) ("undefined" for a
\* missing key); no group is empty, the sizes sum to the number of rows and
\* each group keeps the input order of its rows.
C16_Partition ==
    phase = "grouped" =>
        /\ ~res.threw
        /\ \A i \in 1..Len(arg) : HasKey(res.groups, GroupName(arg[i], KeyG))
        /\ \A g \in 1..Len(res.groups) :
              /\ res.groups[g][2].v # <<>>
              /\ res.groups[g][2].v = RowsNamed(arg, KeyG, res.groups[g][1])
              /\ \A h \in 1..Len(res.groups) :
                    res.groups[h][1] = res.groups[g][1] => h = g
        /\ GroupSizes(res.groups, 1) = Len(arg)

\* What a cell of the generated tables is in a trace: the number that a
\* numeric text denotes, every other cell as it is
TraceEntry(cell) ==
    CASE cell = JStr(<<"2", ".", "5">>) -> JDec(25, 1)
      [] cell = JStr(<<"2">>) -> JNum(2)
      [] cell = JStr(<<"1">>) -> JNum(1)
      [] OTHER -> cell

-----------------------------------------------------------------------------
(* The series of a chart, checked under Spec *)

\* The names of the traces that renderChart hands to Plotly.react: one trace
\* per group of groupRowsByKey when groupKey is set, one trace otherwise
traceNames(x, y, group, rows) ==
    IF truthy(group)
    THEN LET grouped == groupRowsByKey(rows, group.v)
         IN  IF grouped.threw THEN <<>>
             ELSE [i \in 1..Len(grouped.groups) |-> grouped.groups[i][1]]
    ELSE <<traceName(x.v, y.v)>>

\* xKey and yKey are set and parsedRows has a row
ReadyToPlot == truthy(xKey) /\ truthy(yKey) /\ Len(parsedRows) > 0

\* C21: a chart is drawn only by a plot request made when xKey and yKey are
\* set and parsedRows is non-empty; a request in any other state leaves the
\* displayed chart as it is; a completed load leaves no chart displayed; a
\* chart drawn without groupKey has exactly one series.
C21_DrawnOnlyWhenReady ==
    [][/\ (PlotClick /\ ~ReadyToPlot) => chart' = chart
       /\ (chart'.kind = "plot" /\ chart' # chart) => (PlotClick /\ ReadyToPlot)
       /\ \A j \in 1..Len(pending) :
             OnloadCompletes(j) => chart'.kind # "plot"
       /\ (chart'.kind = "plot" /\ ~truthy(chart'.group)) =>
             Len(traceNames(chart'.x, chart'.y, chart'.group, chart'.rows)) = 1]_vars

\* The column a of a.csv is on both axes, no group is chosen, and the chart
\* that is displayed has the one series "a vs a"
C21_Witness ==
    /\ chart.kind = "plot"
    /\ parsedRows = CsvRows
    /\ xKey = JStr(KeyA)
    /\ yKey = JStr(KeyA)
    /\ groupKey = JNull
    /\ chart = PlottedChart(xKey, yKey, groupKey, parsedRows)
    /\ traceNames(chart.x, chart.y, chart.group, chart.rows)
          = << <<"a", " ", "v", "s", " ", "a">> >>

====
